---- MODULE Spec2Model ----
\* A model of the Readable engine, its pipe/flow algorithm and the Transform
\* composition of src/transform.js.
\*
\* JavaScript runs one task at a time: every action below is one task (an
\* external call, a producer reply, a deferred nextTick callback, a sink's
\* 'drain'), executed to completion together with every listener it calls
\* synchronously.  The synchronous code is written as operators over a record
\* w ("the world") that holds the mutable state; an action computes the world
\* after the task and commits it to the variables.
EXTENDS Integers, Sequences, FiniteSets, TLC

\* ------------------------------------------------------------------ bounds
\* units of data the producer (or the transform steps) supply in one run
MaxUnits == 3
\* consumer read(n) sizes tried: 0 (no argument) .. MaxN
MaxN == 3
\* largest number of deferred tasks queued at once
MaxTicks == 2
\* how many times a producer, a step or a flush may report an error
MaxErrors == 1
\* how many times 'end' may be raised before the consumer stops calling read()
MaxEnds == 2
\* how many times the sinks fill up (and answer backpressure) in one run
MaxStalls == 1
\* how many chunks are written to the input side of a Transform in one run
MaxWrites == 2
\* how many times a run goes through emitDataEvents, and how many 'data'
\* listeners it registers
MaxSwitches == 2

\* ---------------------------------------------------------- configuration
\* options.lowWaterMark values tried (the default, 1024, is scaled down)
LowWaterMarks == {1, 2}
\* options.bufferSize values tried (the default, 16384, is scaled down): the
\* size hint of a producer request, hence the largest chunk a reply carries
BufferSizes == {2}
\* pipeOpts.chunkSize values tried: 0 stands for "not given"
ChunkSizes == {0, 2}

Null == <<>>

VARIABLES
    kind,      \* "readable": a Readable with an asynchronous producer as
               \* _read; "transform": a Transform; "wrap": a Readable that
               \* wraps an old-style stream
    rs,        \* this._readableState
    ws,        \* this._writableState (Transform only)
    tr,        \* the user's transform and flush steps (Transform only)
    lis,       \* listeners registered on the stream, by event
    ticks,     \* process.nextTick queue
    prod,      \* the asynchronous producer behind _read, or the old-style
               \* stream that wrap() was given
    sinks,     \* the pipe destinations
    cl,        \* needDrain counters of the flow invocations waiting for 'drain'
    old,       \* the old-mode ('data' events) side of the stream: the
               \* paused and readable flags of each emitDataEvents call, the
               \* number of 'data' listeners
    obs,       \* what an observer of the stream has seen so far
    last       \* the call made by the last task: its argument, the buffered
               \* size and ended flag it found, its result, the producer
               \* requests and flow reads it made, the events it raised

vars == <<kind, rs, ws, tr, lis, ticks, prod, sinks, cl, old, obs, last>>

\* the destinations that can be piped to, each at most once
Sinks == {1, 2}

\* one needDrain counter for each flow() invocation that can be waiting for
\* 'drain' at a time: no more than there are pipe() calls
Closures == {1, 2}

\* ------------------------------------------------------------ from-list.js
RECURSIVE Flatten(_)
Flatten(list) ==
    IF list = <<>> THEN <<>> ELSE Head(list) \o Flatten(Tail(list))

RECURSIVE SumLen(_)
SumLen(list) ==
    IF list = <<>> THEN 0 ELSE Len(Head(list)) + SumLen(Tail(list))

\* the data fromList(n, list, length) returns: the first n units of the queue
fromList(n, list) ==
    SubSeq(Flatten(list), 1, n)

\* the queue fromList leaves behind: whole chunks shifted off, one chunk split
RECURSIVE fromListRest(_, _)
fromListRest(n, list) ==
    IF n = 0 \/ list = <<>> THEN list
    ELSE IF Len(Head(list)) <= n
         THEN fromListRest(n - Len(Head(list)), Tail(list))
         ELSE <<SubSeq(Head(list), n + 1, Len(Head(list)))>> \o Tail(list)

\* ------------------------------------------------------------------ state
\* function ReadableState(options, stream)
ReadableState(lwm, bs) ==
    [ bufferSize    |-> bs,
      lowWaterMark  |-> lwm,
      buffer        |-> <<>>,
      length        |-> 0,
      pipes         |-> <<>>,
      flowing       |-> FALSE,
      ended         |-> FALSE,
      reading       |-> FALSE,
      needReadable  |-> FALSE ]

\* a pipe destination (a Writable, or anything with write/end and 'drain'):
\* full: its next write() answers false; waiting: a write() answered false
\* and 'drain' has not been emitted since; drainL: its once('drain') listeners
NewSink ==
    [ piped |-> FALSE, full |-> FALSE, waiting |-> FALSE, ends |-> 0,
      drainL |-> <<>> ]

\* the push side's state, as the collaborator contract gives it: the queued
\* size, the chunks waiting for their turn, whether a _write is in progress
WritableState ==
    [ length |-> 0, buffer |-> <<>>, writing |-> FALSE, ending |-> FALSE,
      ended |-> FALSE ]

World ==
    [ rs |-> rs, ws |-> ws, tr |-> tr, lis |-> lis, ticks |-> ticks,
      prod |-> prod, sinks |-> sinks, cl |-> cl, old |-> old, obs |-> obs, ret |-> Null, nd |-> 0, exc |-> FALSE,
      ovf |-> FALSE, req |-> 0, fr |-> 0, evs |-> <<>>, cs |-> 0 ]

Commit(w, op, n) ==
    /\ ~w.ovf
    /\ Len(w.ticks) <= MaxTicks
    /\ rs' = w.rs
    /\ ws' = w.ws
    /\ tr' = w.tr
    /\ lis' = w.lis
    /\ ticks' = w.ticks
    /\ prod' = w.prod
    /\ sinks' = w.sinks
    /\ cl' = w.cl
    /\ old' = w.old
    /\ obs' = [w.obs EXCEPT !.thrown = @ \/ w.exc]
    /\ kind' = kind
    /\ last' = [op |-> op, n |-> n, ret |-> IF op = "read" THEN w.ret ELSE Null,
                len0 |-> IF op = "read" THEN rs.length ELSE 0,
                ended0 |-> IF op = "read" THEN rs.ended ELSE FALSE,
                req |-> w.req, fr |-> w.fr, evs |-> w.evs]

RemoveFirst(s, x) ==
    IF \E i \in 1..Len(s) : s[i] = x
    THEN LET i == CHOOSE i \in 1..Len(s) :
                      s[i] = x /\ \A j \in 1..(i - 1) : s[j] # x
         IN SubSeq(s, 1, i - 1) \o SubSeq(s, i + 1, Len(s))
    ELSE s

RemoveAll(s, x) ==
    SelectSeq(s, LAMBDA y : y # x)

\* ------------------------------------------------------- Readable engine
RECURSIVE read(_, _), onread(_, _, _), emit(_, _), emitReadable(_, _),
          emitEnd(_, _), flow(_, _), flowWrite(_, _, _, _), flowEnd(_, _),
          _read(_), onfinish(_), consumerDrain(_), stream_read(_, _),
          Writable_writecb(_, _), ondataReadable(_, _), dataLoop(_, _)

\* process.nextTick(fn)
nextTick(w, task) ==
    [w EXCEPT !.ticks = Append(@, task)]

\* this._read(n, cb) of a stream whose producer replies asynchronously: the
\* request is handed over, cb is called later
Producer_read(w) ==
    [w EXCEPT !.prod.outstanding = @ + 1, !.req = @ + 1]

\* Transform.prototype._read = function(n, cb)
Transform_read(w) ==
    IF (w.ws.ended \/ w.ws.ending) /\ w.ws.length = 0
    THEN onread([w EXCEPT !.rs.reading = FALSE], FALSE, Null)
    ELSE [w EXCEPT !.rs.reading = FALSE]

\* the call this._read(state.bufferSize, onread)
_read(w) ==
    IF kind = "transform" THEN Transform_read(w) ELSE Producer_read(w)

\* onread with a fault: the chunk is queued, state.length is not updated
onread_sizeLost(w, er, chunk) ==
    LET Notify(w3) ==
            IF w3.rs.needReadable
            THEN emit([w3 EXCEPT !.rs.needReadable = FALSE], "readable")
            ELSE w3
        Prefetch(w2) ==
            Notify(IF w2.rs.length < w2.rs.lowWaterMark THEN _read(w2) ELSE w2)
        Eof(w2) ==
            IF w2.rs.length > 0 THEN emit(w2, "readable") ELSE w2
        Reply(w1) ==
            IF er THEN emit(w1, "error")
            ELSE IF Len(chunk) = 0 THEN Eof([w1 EXCEPT !.rs.ended = TRUE])
            ELSE Prefetch([w1 EXCEPT !.rs.buffer = Append(@, chunk)])
    IN Reply([w EXCEPT !.rs.reading = FALSE])

\* function onread(er, chunk), the callback read() hands to _read
onread(w, er, chunk) ==
    LET Notify(w3) ==
            IF w3.rs.needReadable
            THEN emit([w3 EXCEPT !.rs.needReadable = FALSE], "readable")
            ELSE w3
        Prefetch(w2) ==
            Notify(IF w2.rs.length < w2.rs.lowWaterMark THEN _read(w2) ELSE w2)
        Eof(w2) ==
            IF w2.rs.length > 0 THEN emit(w2, "readable") ELSE w2
        Reply(w1) ==
            IF er THEN emit(w1, "error")
            ELSE IF Len(chunk) = 0 THEN Eof([w1 EXCEPT !.rs.ended = TRUE])
            ELSE Prefetch([w1 EXCEPT !.rs.length = @ + Len(chunk),
                                     !.rs.buffer = Append(@, chunk)])
    IN Reply([w EXCEPT !.rs.reading = FALSE])

\* read with a fault: the queue shifts one chunk off for every read that
\* returns data, however much of the chunk was consumed
read_shiftsChunk(w, n) ==
    IF w.rs.length = 0 /\ w.rs.ended
    THEN [nextTick(w, [t |-> "end"]) EXCEPT !.ret = Null]
    ELSE
    LET st    == w.rs
        n1    == IF n <= 0 THEN st.length ELSE n
        defer == n1 > st.length /\ ~st.ended /\ st.length < st.lowWaterMark
        n2    == IF n1 > st.length
                 THEN (IF defer THEN 0 ELSE st.length)
                 ELSE n1
        ret   == IF n2 > 0 THEN fromList(n2, st.buffer) ELSE Null
        Return(w2) ==
            IF w2.exc THEN w2 ELSE [w2 EXCEPT !.ret = ret]
        Refill(w1) ==
            Return(IF ~w1.rs.ended /\ w1.rs.length < w1.rs.lowWaterMark
                      /\ ~w1.rs.reading
                   THEN _read([w1 EXCEPT !.rs.reading = TRUE])
                   ELSE w1)
    IN Refill([w EXCEPT !.rs.needReadable = @ \/ defer \/ ret = Null,
                        !.rs.buffer = IF n2 > 0 THEN Tail(@) ELSE @,
                        !.rs.length = @ - n2])

\* read with a fault: a request for more than is buffered is never deferred,
\* it returns what is buffered
read_neverDefers(w, n) ==
    IF w.rs.length = 0 /\ w.rs.ended
    THEN [nextTick(w, [t |-> "end"]) EXCEPT !.ret = Null]
    ELSE
    LET st    == w.rs
        n1    == IF n <= 0 THEN st.length ELSE n
        n2    == IF n1 > st.length THEN st.length ELSE n1
        ret   == IF n2 > 0 THEN fromList(n2, st.buffer) ELSE Null
        Return(w2) ==
            IF w2.exc THEN w2 ELSE [w2 EXCEPT !.ret = ret]
        Refill(w1) ==
            Return(IF ~w1.rs.ended /\ w1.rs.length < w1.rs.lowWaterMark
                      /\ ~w1.rs.reading
                   THEN _read([w1 EXCEPT !.rs.reading = TRUE])
                   ELSE w1)
    IN Refill([w EXCEPT !.rs.needReadable = @ \/ ret = Null,
                        !.rs.buffer = fromListRest(n2, @),
                        !.rs.length = @ - n2])

\* Readable.prototype.read = function(n); n = 0 stands for a call without n
read(w, n) ==
    IF w.rs.length = 0 /\ w.rs.ended
    THEN [nextTick(w, [t |-> "end"]) EXCEPT !.ret = Null]
    ELSE
    LET st    == w.rs
        n1    == IF n <= 0 THEN st.length ELSE n
        defer == n1 > st.length /\ ~st.ended /\ st.length < st.lowWaterMark
        n2    == IF n1 > st.length
                 THEN (IF defer THEN 0 ELSE st.length)
                 ELSE n1
        ret   == IF n2 > 0 THEN fromList(n2, st.buffer) ELSE Null
        Return(w2) ==
            IF w2.exc THEN w2 ELSE [w2 EXCEPT !.ret = ret]
        Refill(w1) ==
            Return(IF ~w1.rs.ended /\ w1.rs.length < w1.rs.lowWaterMark
                      /\ ~w1.rs.reading
                   THEN _read([w1 EXCEPT !.rs.reading = TRUE])
                   ELSE w1)
    IN Refill([w EXCEPT !.rs.needReadable = @ \/ defer \/ ret = Null,
                        !.rs.buffer = fromListRest(n2, @),
                        !.rs.length = @ - n2])

\* EventEmitter.prototype.emit for the events of the stream
emit(w, ev) ==
    LET Call(w0) ==
            CASE ev = "readable" -> emitReadable(w0, w0.lis.readable)
              [] ev = "end"      ->
                     emitEnd([w0 EXCEPT !.obs.ends = @ + 1], w0.lis.end)
              [] ev = "error"    -> [w0 EXCEPT !.obs.errs = @ + 1]
              [] ev = "finish"   -> onfinish(w0)
              [] OTHER           -> w0
    IN Call([w EXCEPT !.evs = Append(@, ev)])

\* the 'readable' listeners, called in registration order; the ones flow()
\* registers with once() are removed as they are called
emitReadable(w, ls) ==
    IF ls = <<>> \/ w.exc THEN w
    ELSE emitReadable(
             IF Head(ls).t = "flow"
             THEN flow([w EXCEPT !.lis.readable = RemoveFirst(@, Head(ls))],
                       Head(ls).cs)
             ELSE IF Head(ls).t = "data"
             THEN ondataReadable(w, Head(ls).id)
             ELSE consumerDrain(w),
             Tail(ls))

\* the 'end' listeners: function onend() { dest.end(); }, registered with once()
emitEnd(w, ls) ==
    IF ls = <<>> \/ w.exc THEN w
    ELSE emitEnd([w EXCEPT !.lis.end = RemoveFirst(@, Head(ls)),
                           !.sinks[Head(ls)].ends = @ + 1],
                 Tail(ls))

\* a consumer's 'readable' listener: it calls read() until read() returns
\* null, and then waits for the next 'readable'
consumerDrain(w) ==
    LET Again(w1) ==
            IF w1.exc \/ w1.ret = Null THEN w1
            ELSE consumerDrain([w1 EXCEPT !.obs.got = @ \o w1.ret])
    IN Again(stream_read(w, 0))

\* ----------------------------------------------------------------- old mode
\* emitDataEvents: while (!paused && (null !== (c = stream.read())))
\*                    stream.emit('data', c);
\* and, when the loop ended on a null, readable = false; needReadable = true
dataLoop(w, id) ==
    LET Got1(w1) ==
            IF w1.exc THEN w1
            ELSE IF w1.ret = Null
            THEN [w1 EXCEPT !.old.readable[id] = FALSE,
                            !.rs.needReadable = TRUE]
            ELSE dataLoop(emit([w1 EXCEPT !.obs.got = @ \o w1.ret], "data"),
                          id)
    IN IF w.old.paused[id] THEN w ELSE Got1(stream_read(w, 0))

\* emitDataEvents: stream.on('readable', function() {...}) of the id-th call
ondataReadable(w, id) ==
    dataLoop([w EXCEPT !.old.readable[id] = TRUE], id)

\* function emitDataEvents(stream)
emitDataEvents(w) ==
    IF w.rs.flowing THEN [w EXCEPT !.exc = TRUE]
    ELSE nextTick([w EXCEPT !.old.paused = Append(@, FALSE),
                            !.old.readable = Append(@, FALSE),
                            !.lis.readable =
                                Append(@, [t |-> "data",
                                           id |-> Len(w.old.paused) + 1])],
                  [t |-> "readable"])

\* Readable.prototype.on = function(ev, fn) with ev = 'data'
Readable_on(w) ==
    LET Registered(w1) ==
            IF w1.exc THEN w1 ELSE [w1 EXCEPT !.old.dataL = @ + 1]
    IN Registered(IF ~w.rs.flowing THEN emitDataEvents(w) ELSE w)

\* stream.on('data', fn): Readable.prototype.on, until emitDataEvents has
\* replaced the stream's own on with Stream.prototype.on
stream_on(w) ==
    IF w.old.paused = <<>> THEN Readable_on(w)
    ELSE [w EXCEPT !.old.dataL = @ + 1]

\* stream.pause(): Readable.prototype.pause, until emitDataEvents has
\* replaced it with the pause of its latest call
stream_pause(w) ==
    LET Paused(w1) ==
            IF w1.exc THEN w1
            ELSE [w1 EXCEPT !.old.paused[Len(w1.old.paused)] = TRUE]
    IN Paused(IF w.old.paused = <<>> THEN emitDataEvents(w) ELSE w)

\* stream.resume(): Readable.prototype.resume, until emitDataEvents has
\* replaced it with the resume of its latest call
stream_resume(w) ==
    LET Resumed(w1) ==
            IF w1.exc THEN w1
            ELSE IF w1.old.readable[Len(w1.old.paused)]
            THEN emit([w1 EXCEPT !.old.paused[Len(w1.old.paused)] = FALSE],
                      "readable")
            ELSE [w1 EXCEPT !.old.paused[Len(w1.old.paused)] = FALSE]
    IN Resumed(IF w.old.paused = <<>> THEN emitDataEvents(w) ELSE w)

\* --------------------------------------------------------------------- wrap
\* Readable.prototype.wrap: stream.on('data', function(chunk) {...})
wrap_ondata(w, chunk) ==
    LET Pause(w2) ==
            IF w2.exc THEN w2
            ELSE IF w2.rs.length > w2.rs.lowWaterMark /\ ~w2.prod.paused
            THEN [w2 EXCEPT !.prod.paused = TRUE, !.prod.srcPaused = TRUE]
            ELSE w2
    IN Pause(emit([w EXCEPT !.rs.buffer = Append(@, chunk),
                            !.rs.length = @ + Len(chunk)], "readable"))

\* Readable.prototype.wrap: stream.on('end', function() {...})
wrap_onend(w) ==
    IF w.rs.length = 0
    THEN emit([w EXCEPT !.rs.ended = TRUE], "end")
    ELSE [w EXCEPT !.rs.ended = TRUE]

\* Readable.prototype.wrap: this.read = function(n) {...}; the name ended in
\* its last test is bound nowhere, so evaluating it throws a ReferenceError
wrap_read(w, n) ==
    LET st == w.rs IN
    IF st.length = 0 THEN [w EXCEPT !.rs.needReadable = TRUE, !.ret = Null]
    ELSE
    LET n1 == IF n <= 0 THEN st.length ELSE n IN
    IF n1 > st.length /\ ~st.ended
    THEN [w EXCEPT !.rs.needReadable = TRUE, !.ret = Null]
    ELSE
    LET n2  == IF n1 > st.length THEN st.length ELSE n1
        ret == fromList(n2, st.buffer)
        w1  == [w EXCEPT !.rs.buffer = fromListRest(n2, @),
                         !.rs.length = @ - n2]
        w2  == IF w1.rs.length < w1.rs.lowWaterMark /\ w1.prod.paused
               THEN [w1 EXCEPT !.prod.paused = FALSE, !.prod.srcPaused = FALSE]
               ELSE w1
    IN IF w2.rs.length = 0
       THEN [w2 EXCEPT !.exc = TRUE, !.ret = Null]
       ELSE [w2 EXCEPT !.ret = ret]

\* the call stream.read(n): wrap() replaces the read method of the stream
stream_read(w, n) ==
    IF kind = "wrap" THEN wrap_read(w, n) ELSE read(w, n)

\* ---------------------------------------------------------------- Transform
\* _output with a fault: the chunk is put at the front of the queue
_output_unshift(w, chunk) ==
    LET Notify(w1) ==
            IF w1.rs.needReadable
            THEN emit([w1 EXCEPT !.rs.needReadable = FALSE], "readable")
            ELSE w1
    IN IF Len(chunk) = 0 THEN w
       ELSE Notify([w EXCEPT !.rs.buffer = <<chunk>> \o @,
                             !.rs.length = @ + Len(chunk)])

\* Transform.prototype._output = function(chunk)
_output(w, chunk) ==
    LET Notify(w1) ==
            IF w1.rs.needReadable
            THEN emit([w1 EXCEPT !.rs.needReadable = FALSE], "readable")
            ELSE w1
    IN IF Len(chunk) = 0 THEN w
       ELSE Notify([w EXCEPT !.rs.buffer = Append(@, chunk),
                             !.rs.length = @ + Len(chunk)])

\* a user step calling output(chunk) k times in a row, each time with the
\* next unit of output
RECURSIVE outputs(_, _)
outputs(w, k) ==
    IF k = 0 \/ w.exc THEN w
    ELSE outputs(_output([w EXCEPT !.tr.next = @ + 1], <<w.tr.next>>), k - 1)

\* done with a fault: the tail is not announced, 'end' is raised whatever
\* is still queued
done_endsAtOnce(w, er) ==
    IF er THEN emit(w, "error")
    ELSE emit([w EXCEPT !.rs.ended = TRUE], "end")

\* function done(er)
done(w, er) ==
    IF er THEN emit(w, "error")
    ELSE IF w.rs.length > 0 /\ w.rs.needReadable
    THEN emit([w EXCEPT !.rs.ended = TRUE], "readable")
    ELSE IF w.rs.length = 0 THEN emit([w EXCEPT !.rs.ended = TRUE], "end")
    ELSE [w EXCEPT !.rs.ended = TRUE]

\* the listener the constructor registers: this.once('finish', ...); the
\* user's _flush emits tr.flush.emits chunks and calls its callback at once
\* (sync) or later, after it has emitted tr.flush.late more chunks
onfinish(w) ==
    LET Called(w1) ==
            IF w1.exc THEN w1
            ELSE IF w.tr.flush.sync THEN done(w1, w.tr.flush.err)
            ELSE [w1 EXCEPT !.tr.flushing = TRUE,
                            !.tr.late = w.tr.flush.late]
    IN IF ~w.tr.flush.has THEN done(w, FALSE)
       ELSE Called(outputs(w, w.tr.flush.emits))

\* _write with a fault: when the step calls its callback synchronously, the
\* write-completion callback is called at once instead of on the next tick
Transform_write_inline(w, chunk) ==
    LET Called(w1) ==
            IF w1.exc THEN w1
            ELSE IF chunk.sync
            THEN Writable_writecb(w1, chunk.err)
            ELSE [w1 EXCEPT !.tr.stepping = <<chunk.err>>]
    IN Called(outputs(w, chunk.emits))

\* Transform.prototype._write = function(chunk, cb); the user's _transform
\* emits chunk.emits chunks and calls its callback at once (sync) or later
Transform_write(w, chunk) ==
    LET Called(w1) ==
            IF w1.exc THEN w1
            ELSE IF chunk.sync
            THEN nextTick(w1, [t |-> "writecb", er |-> chunk.err])
            ELSE [w1 EXCEPT !.tr.stepping = <<chunk.err>>]
    IN Called(outputs(w, chunk.emits))

\* the push side's write(chunk): the chunk is queued behind the _write in
\* progress, or handed to _write at once
Writable_write(w, chunk) ==
    IF w.ws.ended \/ w.ws.ending \/ w.obs.errs > 0 THEN w
    ELSE IF w.ws.writing
    THEN [w EXCEPT !.ws.length = @ + 1, !.ws.buffer = Append(@, chunk)]
    ELSE Transform_write([w EXCEPT !.ws.length = @ + 1, !.ws.writing = TRUE],
                         chunk)

\* the callback the push side hands to _write: on an error the stream stops,
\* else the chunk is done and the next queued chunk gets its turn; 'finish'
\* once the input is ending and nothing is queued
Writable_writecb(w, er) ==
    IF er THEN emit([w EXCEPT !.ws.writing = FALSE], "error")
    ELSE IF w.ws.length = 1 /\ w.ws.ending
    THEN emit([w EXCEPT !.ws.writing = FALSE, !.ws.length = 0], "finish")
    ELSE IF w.ws.buffer # <<>>
    THEN Transform_write([w EXCEPT !.ws.length = @ - 1,
                                   !.ws.writing = TRUE,
                                   !.ws.buffer = Tail(@)],
                         Head(w.ws.buffer))
    ELSE [w EXCEPT !.ws.writing = FALSE, !.ws.length = @ - 1]

\* the push side's end(): no more input is coming
Writable_end(w) ==
    LET Ended(w2) == [w2 EXCEPT !.ws.ended = TRUE] IN
    Ended(IF ~w.ws.writing /\ w.obs.errs = 0
          THEN emit([w EXCEPT !.ws.ending = TRUE], "finish")
          ELSE [w EXCEPT !.ws.ending = TRUE])

\* --------------------------------------------------------------- pipe/flow
\* each flow() invocation has its own needDrain counter and ondrain closure;
\* an invocation none of whose writes answered false needs no record
FreeClosure(w) ==
    IF \E c \in Closures : w.cl[c].n = 0
    THEN CHOOSE c \in Closures :
             w.cl[c].n = 0 /\ \A b \in Closures : b < c => w.cl[b].n # 0
    ELSE 0

\* the forEach with a fault: it stops at the first destination whose write
\* answers false
flowWrite_stopsAtFull(w, chunk, i, ps) ==
    IF i > Len(ps) THEN w
    ELSE LET d       == ps[i]
             written == ~w.sinks[d].full
             w1      == [w EXCEPT !.sinks[d].waiting = @ \/ ~written,
                                  !.obs.wlog = Append(@, <<d, chunk>>)]
             c       == IF w1.nd # 0 THEN w1.nd ELSE FreeClosure(w1)
             w2      == IF written THEN w1
                        ELSE IF c = 0 THEN [w1 EXCEPT !.ovf = TRUE]
                        ELSE [w1 EXCEPT !.nd = c,
                                        !.cl[c].n = @ + 1,
                                        !.cl[c].cs = w1.cs,
                                        !.sinks[d].drainL = Append(@, c)]
         IN IF written THEN flowWrite(w2, chunk, i + 1, ps) ELSE w2

\* state.pipes.forEach(function(dest) { ... dest.write(chunk) ... }) from the
\* i-th destination on; w.nd is the closure holding this invocation's
\* needDrain counter (0: every write so far returned true)
flowWrite(w, chunk, i, ps) ==
    IF i > Len(ps) THEN w
    ELSE LET d       == ps[i]
             written == ~w.sinks[d].full
             w1      == [w EXCEPT !.sinks[d].waiting = @ \/ ~written,
                                  !.obs.wlog = Append(@, <<d, chunk>>)]
             c       == IF w1.nd # 0 THEN w1.nd ELSE FreeClosure(w1)
             w2      == IF written THEN w1
                        ELSE IF c = 0 THEN [w1 EXCEPT !.ovf = TRUE]
                        ELSE [w1 EXCEPT !.nd = c,
                                        !.cl[c].n = @ + 1,
                                        !.cl[c].cs = w1.cs,
                                        !.sinks[d].drainL = Append(@, c)]
         IN flowWrite(w2, chunk, i + 1, ps)

\* function flow(src, pipeOpts): the while loop
flow(w, cs) ==
    LET Loop(w3) ==
            IF w3.nd > 0 \/ w3.ovf THEN w3 ELSE flow(w3, cs)
        Write(w1) ==
            IF w1.exc THEN w1
            ELSE IF w1.ret = Null THEN flowEnd(w1, cs)
            ELSE Loop(emit(flowWrite([w1 EXCEPT !.nd = 0, !.cs = cs],
                                     w1.ret, 1, w1.rs.pipes),
                           "data"))
    IN IF w.rs.pipes = <<>> THEN flowEnd(w, cs)
       ELSE Write(stream_read([w EXCEPT !.fr = @ + 1], cs))

\* function flow(src, pipeOpts): after the loop
flowEnd(w, cs) ==
    IF w.rs.pipes = <<>>
    THEN [w EXCEPT !.rs.flowing = FALSE, !.exc = TRUE]
    ELSE [w EXCEPT !.lis.readable = Append(@, [t |-> "flow", cs |-> cs])]

\* function ondrain() of the flow invocations listening on one sink's 'drain'
RECURSIVE ondrain(_, _)
ondrain(w, ls) ==
    LET Drained(w1, c) ==
            IF w1.cl[c].n = 0 THEN flow(w1, w1.cl[c].cs) ELSE w1
    IN IF ls = <<>> \/ w.exc THEN w
       ELSE ondrain(Drained([w EXCEPT !.cl[Head(ls)].n = @ - 1], Head(ls)),
                    Tail(ls))

\* Readable.prototype.pipe = function(dest, pipeOpts)
pipe(w, dest, end, cs) ==
    LET w1 == [w EXCEPT !.rs.pipes = Append(@, dest)]
        w2 == IF end THEN [w1 EXCEPT !.lis.end = Append(@, dest)] ELSE w1
    IN IF ~w2.rs.flowing THEN nextTick(w2, [t |-> "flow", cs |-> cs]) ELSE w2

\* Readable.prototype.unpipe = function(dest), with a destination
unpipe(w, dest) ==
    IF \E i \in 1..Len(w.rs.pipes) : w.rs.pipes[i] = dest
    THEN [w EXCEPT !.lis.end = RemoveAll(@, dest),
                   !.rs.pipes = RemoveFirst(@, dest)]
    ELSE w

\* ---------------------------------------------------------------- actions
InitCommon ==
    /\ ws = WritableState
    /\ ticks = <<>>
    /\ prod = [next |-> 1, outstanding |-> 0, eof |-> FALSE, paused |-> FALSE,
               srcPaused |-> FALSE]
    /\ sinks = [d \in Sinks |-> NewSink]
    /\ cl = [c \in Closures |-> [n |-> 0, cs |-> 0]]
    /\ old = [paused |-> <<>>, readable |-> <<>>, dataL |-> 0]
    /\ obs = [ends |-> 0, errs |-> 0, got |-> <<>>, wlog |-> <<>>,
              thrown |-> FALSE, stalls |-> 0]
    /\ last = [op |-> "new", n |-> 0, ret |-> Null, len0 |-> 0,
               ended0 |-> FALSE, req |-> 0, fr |-> 0, evs |-> <<>>]

NoFlush ==
    [has |-> FALSE, emits |-> 0, late |-> 0, sync |-> TRUE, err |-> FALSE]

\* the _flush steps tried: emits chunks are output during the call of _flush,
\* late chunks afterwards, before the callback is called
Flushes ==
    { NoFlush,
      [has |-> TRUE, emits |-> 1, late |-> 0, sync |-> TRUE, err |-> FALSE],
      [has |-> TRUE, emits |-> 1, late |-> 0, sync |-> FALSE, err |-> FALSE],
      [has |-> TRUE, emits |-> 0, late |-> 1, sync |-> FALSE, err |-> FALSE],
      [has |-> TRUE, emits |-> 0, late |-> 0, sync |-> FALSE, err |-> TRUE] }

\* the input chunks tried: what the user's _transform does with the chunk
InputChunks ==
    [emits : {0, 1, 2}, sync : BOOLEAN, err : {FALSE}]
        \cup {[emits |-> 0, sync |-> TRUE, err |-> TRUE]}

\* the sizes a Transform's consumer passes to read(n); 0: no argument
TransformReadSizes == {0, 1}

NewTransform(f) ==
    [next |-> 1, writes |-> 0, stepping |-> <<>>, flushing |-> FALSE,
     late |-> 0, flush |-> f]

\* new Readable(options), with an asynchronous producer as _read
InitReadable ==
    /\ kind = "readable"
    /\ tr = NewTransform(NoFlush)
    /\ lis = [readable |-> <<>>, end |-> <<>>]
    /\ \E lwm \in LowWaterMarks, bs \in BufferSizes :
           rs = ReadableState(lwm, bs)
    /\ InitCommon

\* the consumer calls stream.read(n)
ConsumerRead(n) ==
    /\ ~obs.thrown
    /\ obs.ends < MaxEnds
    /\ LET Received(w) == [w EXCEPT !.obs.got = @ \o w.ret]
       IN Commit(Received(stream_read(World, n)), "read", n)

\* the producer answers one outstanding request with a chunk of k units
ProducerData(k) ==
    /\ ~obs.thrown
    /\ prod.outstanding > 0
    /\ ~prod.eof
    /\ prod.next + k - 1 <= MaxUnits
    /\ LET chunk == [i \in 1..k |-> prod.next + i - 1]
           w0    == [World EXCEPT !.prod.outstanding = @ - 1,
                                  !.prod.next = @ + k]
       IN Commit(onread(w0, FALSE, chunk), "data", k)

\* the producer answers one outstanding request with "no more data"
ProducerEof ==
    /\ ~obs.thrown
    /\ prod.outstanding > 0
    /\ LET w0 == [World EXCEPT !.prod.outstanding = @ - 1, !.prod.eof = TRUE]
       IN Commit(onread(w0, FALSE, Null), "eof", 0)

\* the producer answers one outstanding request with an error
ProducerError ==
    /\ ~obs.thrown
    /\ prod.outstanding > 0
    /\ obs.errs < MaxErrors
    /\ LET w0 == [World EXCEPT !.prod.outstanding = @ - 1]
       IN Commit(onread(w0, TRUE, Null), "error", 0)

\* the next deferred task runs
RunTick ==
    /\ ~obs.thrown
    /\ ticks # <<>>
    /\ LET task == Head(ticks)
           w0   == [World EXCEPT !.ticks = Tail(@)]
       IN CASE task.t = "end"  -> Commit(emit(w0, "end"), "tick", 0)
            [] task.t = "readable" ->
                   Commit(emit(w0, "readable"), "tick", 0)
            [] task.t = "flow" -> Commit(flow(w0, task.cs), "tick", 0)
            [] task.t = "writecb" ->
                   Commit(Writable_writecb(w0, task.er), "writecb", 0)

\* src.pipe(dest, {end: end, chunkSize: cs})
Pipe(d, end, cs) ==
    /\ ~obs.thrown
    /\ ~sinks[d].piped
    /\ Commit(pipe([World EXCEPT !.sinks[d].piped = TRUE], d, end, cs),
              "pipe", d)

\* src.unpipe(dest)
Unpipe(d) ==
    /\ ~obs.thrown
    /\ \E i \in 1..Len(rs.pipes) : rs.pipes[i] = d
    /\ Commit(unpipe(World, d), "unpipe", d)

\* a registered sink fills up: until it drains, its write() answers false
SinkStall(d) ==
    /\ ~obs.thrown
    /\ \E i \in 1..Len(rs.pipes) : rs.pipes[i] = d
    /\ ~sinks[d].full
    /\ obs.stalls < MaxStalls
    /\ Commit([World EXCEPT !.sinks[d].full = TRUE, !.obs.stalls = @ + 1],
              "stall", d)

\* a sink whose write() answered false emits 'drain'
SinkDrain(d) ==
    /\ ~obs.thrown
    /\ sinks[d].waiting
    /\ LET w0 == [World EXCEPT !.sinks[d].full = FALSE,
                               !.sinks[d].waiting = FALSE,
                               !.sinks[d].drainL = <<>>]
       IN Commit(ondrain(w0, sinks[d].drainL), "drain", d)

\* stream.on('data', fn)
OnData ==
    /\ ~obs.thrown
    /\ old.dataL < MaxSwitches
    /\ Commit(stream_on(World), "on", 0)

\* stream.addListener('data', fn): emitDataEvents replaces the stream's on
\* and addEventListener, so addListener stays Readable.prototype.on
AddListenerData ==
    /\ ~obs.thrown
    /\ old.dataL < MaxSwitches
    /\ Len(old.paused) < MaxSwitches
    /\ Commit(Readable_on(World), "addListener", 0)

\* stream.pause()
Pause ==
    /\ ~obs.thrown
    /\ IF old.paused = <<>> THEN TRUE ELSE ~old.paused[Len(old.paused)]
    /\ Commit(stream_pause(World), "pause", 0)

\* stream.resume()
Resume ==
    /\ ~obs.thrown
    /\ IF old.paused = <<>> THEN TRUE ELSE old.paused[Len(old.paused)]
    /\ Commit(stream_resume(World), "resume", 0)

\* the only pipe() call of a run with a single sink
PipeOne(end, cs) ==
    /\ rs.pipes = <<>>
    /\ Pipe(1, end, cs)

\* new Transform(options), with or without a consumer listening to 'readable'
InitTransform ==
    /\ kind = "transform"
    /\ \E lwm \in LowWaterMarks, bs \in BufferSizes :
           rs = ReadableState(lwm, bs)
    /\ \E f \in Flushes : tr = NewTransform(f)
    /\ \E l \in {<<>>, <<[t |-> "consumer"]>>} :
           lis = [readable |-> l, end |-> <<>>]
    /\ InitCommon

\* readable.wrap(stream), stream an old-style stream
InitWrap ==
    /\ kind = "wrap"
    /\ \E lwm \in LowWaterMarks, bs \in BufferSizes :
           rs = ReadableState(lwm, bs)
    /\ tr = NewTransform(NoFlush)
    /\ lis = [readable |-> <<>>, end |-> <<>>]
    /\ InitCommon

\* the wrapped stream emits 'data' with a chunk of k units
SourceData(k) ==
    /\ ~obs.thrown
    /\ kind = "wrap"
    /\ ~prod.eof
    /\ ~prod.srcPaused
    /\ prod.next + k - 1 <= MaxUnits
    /\ LET chunk == [i \in 1..k |-> prod.next + i - 1]
           w0    == [World EXCEPT !.prod.next = @ + k]
       IN Commit(wrap_ondata(w0, chunk), "srcdata", k)

\* the wrapped stream emits 'end'
SourceEnd ==
    /\ ~obs.thrown
    /\ kind = "wrap"
    /\ ~prod.eof
    /\ Commit(wrap_onend([World EXCEPT !.prod.eof = TRUE]), "srcend", 0)

\* transform.write(chunk)
Write(c) ==
    /\ ~obs.thrown
    /\ kind = "transform"
    /\ tr.writes < MaxWrites
    /\ tr.next + c.emits - 1 <= MaxUnits
    /\ Commit(Writable_write([World EXCEPT !.tr.writes = @ + 1], c),
              "write", c.emits)

\* transform.end()
End ==
    /\ ~obs.thrown
    /\ kind = "transform"
    /\ ~ws.ending
    /\ Commit(Writable_end(World), "end", 0)

\* the user's _transform calls its callback, some time after it was invoked
StepDone ==
    /\ ~obs.thrown
    /\ tr.stepping # <<>>
    /\ Commit(nextTick([World EXCEPT !.tr.stepping = <<>>],
                       [t |-> "writecb", er |-> tr.stepping[1]]),
              "stepdone", 0)

\* the user's _flush calls output(chunk), some time after it was invoked and
\* before it calls its callback
FlushOutput ==
    /\ ~obs.thrown
    /\ tr.flushing
    /\ tr.late > 0
    /\ tr.next <= MaxUnits
    /\ Commit(_output([World EXCEPT !.tr.late = @ - 1, !.tr.next = @ + 1],
                      <<tr.next>>),
              "flushout", 1)

\* the user's _flush calls its callback, some time after it was invoked
FlushDone ==
    /\ ~obs.thrown
    /\ tr.flushing
    /\ tr.late = 0
    /\ Commit(done([World EXCEPT !.tr.flushing = FALSE], tr.flush.err),
              "flushdone", 0)

NextReadable ==
    \/ \E n \in 0..MaxN : ConsumerRead(n)
    \/ \E k \in 1..rs.bufferSize : ProducerData(k)
    \/ ProducerEof
    \/ ProducerError
    \/ RunTick

SpecReadable == InitReadable /\ [][NextReadable]_vars

\* options.bufferSize values tried where the prefetch is examined: a producer
\* that replies one unit at a time as well
PrefetchBufferSizes == {1, 2}

\* new Readable(options) with one of these buffer sizes
InitPrefetch ==
    /\ kind = "readable"
    /\ tr = NewTransform(NoFlush)
    /\ lis = [readable |-> <<>>, end |-> <<>>]
    /\ \E lwm \in LowWaterMarks, bs \in PrefetchBufferSizes :
           rs = ReadableState(lwm, bs)
    /\ InitCommon

SpecPrefetch == InitPrefetch /\ [][NextReadable]_vars

\* a Transform: writes, end, the user's steps completing, consumer reads
NextTransform ==
    \/ \E c \in InputChunks : Write(c)
    \/ End
    \/ StepDone
    \/ FlushOutput
    \/ FlushDone
    \/ RunTick
    \/ \E n \in TransformReadSizes : ConsumerRead(n)

SpecTransform == InitTransform /\ [][NextTransform]_vars

\* a Transform whose steps call back synchronously, its flush step, and a
\* consumer that also asks for more than is queued
FinalizeReadSizes == {0, 1, 2}

NextFinalize ==
    \/ \E c \in {x \in InputChunks : x.sync /\ ~x.err} : Write(c)
    \/ End
    \/ FlushOutput
    \/ FlushDone
    \/ RunTick
    \/ \E n \in FinalizeReadSizes : ConsumerRead(n)

SpecFinalize == InitTransform /\ [][NextFinalize]_vars

\* a Readable wrapping an old-style stream, and its consumer
NextWrap ==
    \/ \E k \in 1..rs.bufferSize : SourceData(k)
    \/ SourceEnd
    \/ \E n \in 0..MaxN : ConsumerRead(n)

SpecWrap == InitWrap /\ [][NextWrap]_vars

\* every kind of stream, for the properties of the buffer all of them share
InitStream == InitReadable \/ InitTransform \/ InitWrap

NextStream ==
    \/ \E n \in (IF kind = "transform" THEN TransformReadSizes ELSE 0..MaxN) :
           ConsumerRead(n)
    \/ \E k \in 1..rs.bufferSize : ProducerData(k)
    \/ ProducerEof
    \/ ProducerError
    \/ RunTick
    \/ \E k \in 1..rs.bufferSize : SourceData(k)
    \/ SourceEnd
    \/ \E c \in InputChunks : Write(c)
    \/ End
    \/ StepDone
    \/ FlushOutput
    \/ FlushDone

SpecStream == InitStream /\ [][NextStream]_vars

\* a finite source piped once into one sink that always accepts
NextPipeOne ==
    \/ \E end \in BOOLEAN, cs \in ChunkSizes : PipeOne(end, cs)
    \/ \E k \in 1..rs.bufferSize : ProducerData(k)
    \/ ProducerEof
    \/ RunTick

SpecPipeOne == InitReadable /\ [][NextPipeOne]_vars

\* a Readable with an asynchronous producer, consumed in old mode: 'data'
\* listeners registered with on and addListener, pause and resume
NextPush ==
    \/ OnData
    \/ AddListenerData
    \/ Pause
    \/ Resume
    \/ \E k \in 1..rs.bufferSize : ProducerData(k)
    \/ ProducerEof
    \/ RunTick

SpecPush == InitReadable /\ [][NextPush]_vars

\* the same, with a single switch to old mode: 'data' listeners are
\* registered with on only
NextPushOne ==
    \/ OnData
    \/ Pause
    \/ Resume
    \/ \E k \in 1..rs.bufferSize : ProducerData(k)
    \/ ProducerEof
    \/ RunTick

SpecPushOne == InitReadable /\ [][NextPushOne]_vars

\* a source piped into the sinks of Sinks, which may answer backpressure
NextPipe ==
    \/ \E d \in Sinks : Pipe(d, TRUE, 0)
    \/ \E d \in Sinks : Unpipe(d)
    \/ \E d \in Sinks : SinkStall(d)
    \/ \E d \in Sinks : SinkDrain(d)
    \/ \E k \in 1..rs.bufferSize : ProducerData(k)
    \/ ProducerEof
    \/ RunTick

SpecPipe == InitReadable /\ [][NextPipe]_vars

\* ------------------------------------------------------------ observations
\* the units sink d has been written, in order
RECURSIVE GotOf(_, _)
GotOf(d, log) ==
    IF log = <<>> THEN <<>>
    ELSE (IF Head(log)[1] = d THEN Head(log)[2] ELSE <<>>) \o GotOf(d, Tail(log))

Got(d) == GotOf(d, obs.wlog)

\* nothing is pending: no deferred task, no producer request
Quiescent ==
    ticks = <<>> /\ prod.outstanding = 0

\* ------------------------------------------------------------------ claims
\* the units 1..n in order
Units(n) == [i \in 1..n |-> i]

\* C1: the number of producer requests whose callback has not been invoked yet
\* is never more than one, also while a prefetch chain is in progress.
C1_AtMostOneOutstandingPull ==
    prod.outstanding <= 1

\* C2: on an ended stream with an empty buffer read() returns no data, and
\* 'end' is raised exactly once over the life of the stream however often
\* read() is called afterwards.
C2_EndRaisedOnce ==
    /\ obs.ends <= 1
    /\ (last.op = "read" /\ last.ended0 /\ last.len0 = 0) => last.ret = Null

\* C3: a finite source piped into one sink that always accepts: the sink is
\* written the producer's units in the producer's order, none lost, none
\* duplicated, and once nothing is pending it has been written all of them.
C3_PipeDeliversInOrder ==
    /\ \E n \in 0..(prod.next - 1) : Got(1) = Units(n)
    /\ (Quiescent /\ rs.pipes # <<>>) => Got(1) = Units(prod.next - 1)

\* C3 witness: every unit of a source of several chunks has reached the sink,
\* and the producer has said "no more data"
C3_Witness ==
    /\ Quiescent
    /\ prod.eof
    /\ prod.next - 1 = MaxUnits
    /\ Got(1) = Units(MaxUnits)
    /\ Len(obs.wlog) > 1

\* C4: a finite source piped (end not suppressed) into a sink that always
\* accepts: once the last chunk is delivered and the producer has replied "no
\* more data", with nothing left pending, the sink's end() has been called,
\* and it is never called twice.
C4_SinkEndedOnce ==
    /\ sinks[1].ends <= 1
    /\ (Quiescent /\ prod.eof /\ rs.pipes # <<>>
            /\ prod.next > 1 /\ Got(1) = Units(prod.next - 1)
            /\ (lis.end # <<>> \/ sinks[1].ends > 0))
       => sinks[1].ends = 1

\* the sinks whose write() answered false and that have not emitted 'drain'
Waiting == {d \in Sinks : sinks[d].waiting}

\* the units in s are consecutive and ascending
Consecutive(s) ==
    \A i \in 1..(Len(s) - 1) : s[i + 1] = s[i] + 1

\* C5: from the moment a sink's write returns false until every sink that
\* returned false has emitted 'drain', the pipe makes no read() call and
\* writes no chunk to any sink; what each sink is written stays in order, with
\* nothing skipped or duplicated.
C5_NoFlowUnderBackpressure ==
    [][ /\ (Waiting # {} /\ ~(last'.op = "drain" /\ Waiting = {last'.n}))
           => (last'.fr = 0 /\ obs'.wlog = obs.wlog)
        /\ \A d \in Sinks : Consecutive(Got(d))'
      ]_vars

\* the flow() invocations that are live: scheduled, armed on 'readable', or
\* waiting for 'drain'
FlowScheduled == Len(SelectSeq(ticks, LAMBDA t : t.t = "flow"))
FlowArmed == Len(SelectSeq(lis.readable, LAMBDA l : l.t = "flow"))
FlowBlocked == Cardinality({c \in Closures : cl[c].n > 0})

InPipes(d) == \E i \in 1..Len(rs.pipes) : rs.pipes[i] = d

\* C6: after unpipe(sinkX) nothing more is written to sinkX, and the sinks
\* still registered keep receiving: the flow is never left waiting only for
\* the release of sinks that are no longer registered.
C6_UnpipeStopsOnlyThatSink ==
    [][ /\ \A d \in Sinks : ~InPipes(d) => Got(d)' = Got(d)
        /\ (rs.pipes # <<>> /\ ~obs.thrown /\ FlowBlocked > 0
                /\ FlowScheduled = 0 /\ FlowArmed = 0)'
           => (\E d \in Sinks : InPipes(d) /\ sinks[d].waiting)'
      ]_vars

\* the units emitted by the steps that ran in the task just executed, in the
\* order of emission
EmittedInTask ==
    [i \in 1..(tr'.next - tr.next) |-> tr.next + i - 1]

\* C7: a consumer that is waiting for data (it listens to 'readable' and its
\* last read() found nothing) receives, in the task in which a Transform step
\* runs, what was queued followed by every chunk the step emits, in emission
\* order, and nothing stays queued; for a consumer that polls with read()
\* what it has received followed by what is queued is what the steps have
\* emitted so far, in emission order.
C7_EmitOrderKept ==
    [][ /\ (last'.op \in {"write", "writecb"} /\ lis.readable # <<>>
                /\ rs.needReadable)
           => /\ obs'.got = obs.got \o Flatten(rs.buffer) \o EmittedInTask
              /\ rs'.buffer = <<>>
        /\ (lis.readable = <<>>
               => obs.got \o Flatten(rs.buffer) = Units(tr.next - 1))'
      ]_vars

\* C7 witness: a waiting consumer has just received the two chunks that one
\* step invocation emitted, each announced by its own 'readable'
C7_Witness ==
    /\ kind = "transform"
    /\ last.op = "write"
    /\ last.n = 2
    /\ last.evs = <<"readable", "readable">>
    /\ lis.readable # <<>>
    /\ Len(obs.got) >= 2
    /\ obs.got = Units(tr.next - 1)
    /\ rs.buffer = <<>>

\* C8: the recorded buffered size is the sum of the sizes of the queued chunks
C8_LengthIsSumOfChunks ==
    rs.length = SumLen(rs.buffer)

\* C8 witness: a read(n) has just taken a part of the queue, and more than
\* one chunk is still queued
C8_Witness ==
    /\ last.op = "read"
    /\ last.ret # Null
    /\ Len(rs.buffer) >= 2
    /\ rs.length = SumLen(rs.buffer)

\* C9 as stated: a read(n) for more than is buffered, on a stream that is not
\* ended and whose buffered size is below lowWaterMark, returns no data,
\* leaves the queue and the buffered size unchanged, sets needReadable, and
\* issues exactly one producer request.
C9_DeferIssuesOneRequest ==
    [][ (last'.op = "read" /\ last'.n > rs.length /\ ~rs.ended
             /\ rs.length < rs.lowWaterMark)
        => /\ last'.ret = Null
           /\ rs'.buffer = rs.buffer
           /\ rs'.length = rs.length
           /\ rs'.needReadable
           /\ last'.req = 1
      ]_vars

\* C9 amended: such a read(n) returns no data, leaves the queue and the
\* buffered size unchanged, sets needReadable, and issues one producer request
\* unless state.reading says the request of an earlier read() is unanswered:
\* then it issues none.
C9_DeferIssuesRequestUnlessReading ==
    [][ (last'.op = "read" /\ last'.n > rs.length /\ ~rs.ended
             /\ rs.length < rs.lowWaterMark)
        => /\ last'.ret = Null
           /\ rs'.buffer = rs.buffer
           /\ rs'.length = rs.length
           /\ rs'.needReadable
           /\ last'.req = (IF rs.reading THEN 0 ELSE 1)
      ]_vars

\* C9 witness: a read(n) for more than the non-empty queue holds was deferred
\* and issued a producer request
C9_Witness ==
    /\ last.op = "read"
    /\ last.len0 > 0
    /\ last.n > last.len0
    /\ last.len0 < rs.lowWaterMark
    /\ ~last.ended0
    /\ last.ret = Null
    /\ rs.length = last.len0
    /\ rs.needReadable
    /\ last.req = 1

\* C10: once the producer has reported an error (and 'error' was raised), no
\* read() issues a producer request any more.
C10_NoRequestAfterError ==
    [][ obs.errs > 0 => last'.req = 0 ]_vars

\* the push side takes a write(chunk): the input is not ending and no error
\* was raised
WriteAccepted ==
    ~ws.ending /\ ~ws.ended /\ obs.errs = 0

\* the write-completion callbacks waiting for their tick
CompletionsPending ==
    Len(SelectSeq(ticks, LAMBDA t : t.t = "writecb"))

\* C11: when write(chunk) returns, the write it started has not completed,
\* even if the step called its callback synchronously: the chunk is still
\* counted, the _write is still in progress, no error of the step was raised,
\* and a completion a step asked for synchronously waits for a later tick.
C11_CompletionDeferred ==
    [][ (last'.op = "write" /\ WriteAccepted)
        => /\ ws'.length = ws.length + 1
           /\ ws'.writing
           /\ obs'.errs = obs.errs
           /\ (~ws.writing /\ tr'.stepping = <<>>)
                  => CompletionsPending' = CompletionsPending + 1
      ]_vars

\* C11 witness: write() has returned after a step that called its callback
\* synchronously; the completion waits in the tick queue
C11_Witness ==
    /\ last.op = "write"
    /\ ws.writing
    /\ ws.length = 1
    /\ tr.stepping = <<>>
    /\ CompletionsPending = 1

\* the task just executed is the flush step's callback reporting success:
\* done() runs on the state the task found
FlushSucceeds ==
    last'.op = "flushdone" /\ ~tr.flush.err

\* the task just executed raised 'finish' and finalized in the same call:
\* there is no flush step, or it called back synchronously without error
FinalizesInline ==
    /\ \E i \in 1..Len(last'.evs) : last'.evs[i] = "finish"
    /\ ~tr.flush.has \/ (tr.flush.sync /\ ~tr.flush.err)

\* C12 as stated: when a Transform finalizes without error the output side
\* is marked ended; if output remains buffered 'readable' is raised, else
\* 'end' is raised at once: in every case a notification is raised.
C12_FinalizeNotifies ==
    [][ /\ FinalizesInline => rs'.ended
        /\ FlushSucceeds
           => /\ rs'.ended
              /\ rs.length > 0
                     => last'.evs # <<>> /\ last'.evs[1] = "readable"
              /\ rs.length = 0 => last'.evs # <<>> /\ last'.evs[1] = "end"
      ]_vars

\* C12 amended: the output side is marked ended; output buffered and a
\* consumer waiting (needReadable): 'readable' is raised; output buffered and
\* no consumer waiting: nothing is raised; nothing buffered: 'end' is raised
\* at once.
C12_FinalizeNotifiesWaiting ==
    [][ /\ FinalizesInline => rs'.ended
        /\ FlushSucceeds
           => /\ rs'.ended
              /\ (rs.length > 0 /\ rs.needReadable)
                     => last'.evs # <<>> /\ last'.evs[1] = "readable"
              /\ (rs.length > 0 /\ ~rs.needReadable)
                     => last'.evs = <<>> /\ rs'.buffer = rs.buffer
              /\ rs.length = 0 => last'.evs # <<>> /\ last'.evs[1] = "end"
      ]_vars

\* C12 witness: the flush step has reported success while its output was
\* queued and the consumer was waiting: 'readable' announced the tail
C12_Witness ==
    /\ last.op = "flushdone"
    /\ ~tr.flush.err
    /\ rs.ended
    /\ last.evs # <<>>
    /\ last.evs[1] = "readable"

\* C13: a wrapper raises 'end' only after the wrapped stream has ended and
\* the wrapper's buffer is empty; once the wrapped stream has ended, the
\* read() that drains the buffer to empty returns its data normally (the
\* raising of 'end' that is to follow needs that read to return).
C13_WrapDrainsThenEnds ==
    [][ /\ obs'.ends > 0 => (prod.eof /\ rs.length = 0)'
        /\ (last'.op = "read" /\ prod.eof /\ rs.length > 0
                /\ (last'.n = 0 \/ last'.n >= rs.length))
           => (~obs'.thrown /\ last'.ret = Flatten(rs.buffer)
                  /\ rs'.length = 0)
      ]_vars

\* C14: the switch to old mode ('data' events) is made at most once for a
\* stream: at most one 'readable' listener that drains into 'data' events is
\* installed, and once it is installed state.flowing is true.
C14_SwitchesOnce ==
    /\ Len(old.paused) <= 1
    /\ Len(old.paused) = 1 => rs.flowing

\* the writes made to the sinks by the task just executed, in order
NewWrites ==
    SubSeq(obs'.wlog, Len(obs.wlog) + 1, Len(obs'.wlog))

\* the writes in log are rounds over the destinations ps in order, one round
\* for each chunk, and the chunks of successive rounds are successive data
FannedOut(log, ps) ==
    LET L == Len(ps) IN
    log # <<>>
    => /\ L > 0
       /\ Len(log) % L = 0
       /\ \A j \in 1..Len(log) :
              /\ log[j][1] = ps[((j - 1) % L) + 1]
              /\ log[j][2] = log[((j - 1) \div L) * L + 1][2]
       /\ Consecutive(Flatten([g \in 1..(Len(log) \div L) |->
                                   log[(g - 1) * L + 1][2]]))

\* C15: each chunk the flow loop reads is written to every registered sink
\* exactly once, in registration order, and all those writes are made before
\* the next chunk is written.
C15_FanOutInOrder ==
    [][ FannedOut(NewWrites, rs.pipes) ]_vars

\* C15 witness: two chunks have each been written to both registered sinks
C15_Witness ==
    /\ Len(rs.pipes) = 2
    /\ Len(obs.wlog) >= 4
    /\ Len(Got(1)) >= 2
    /\ Got(1) = Got(2)
    /\ obs.wlog[1][2] = obs.wlog[2][2]
    /\ obs.wlog[1][1] # obs.wlog[2][1]

\* C16: at most one flow loop is live for a source at any time: scheduled
\* for the next tick, re-armed on the next 'readable', or waiting for
\* 'drain'; a pipe() call on a source whose flow is started starts no other.
C16_OneFlowLoop ==
    FlowScheduled + FlowArmed + FlowBlocked <= 1

\* the task about to run is a flow() invocation that finds no sink
FlowFindsNoSink ==
    /\ last'.op = "tick"
    /\ ticks # <<>>
    /\ Head(ticks).t = "flow"
    /\ rs.pipes = <<>>

\* C17: when the flow loop finds that every sink has been removed it ends
\* cleanly: state.flowing is cleared, no 'readable' listener is re-armed, and
\* no exception is raised.
C17_FlowEndsCleanly ==
    [][ FlowFindsNoSink
        => /\ ~rs'.flowing
           /\ FlowArmed' = FlowArmed
           /\ ~obs'.thrown
      ]_vars

\* the stream is in old mode and pause() was called last
IsPaused ==
    IF old.paused = <<>> THEN FALSE ELSE old.paused[Len(old.paused)]

\* C18: in old mode, between pause() and the next resume() no 'data' event
\* is emitted; resume() raises 'readable' again if one arrived while paused,
\* and then everything that became available while paused is delivered as
\* 'data' events; what was delivered followed by what is queued is always
\* the producer's data in order, nothing twice.
C18_PauseGatesDelivery ==
    [][ /\ (IsPaused /\ last'.op # "resume") => obs'.got = obs.got
        /\ (IsPaused /\ last'.op = "resume")
           => /\ obs'.got = obs.got \o Flatten(rs.buffer)
              /\ rs'.buffer = <<>>
              /\ old.readable[Len(old.paused)]
                     => last'.evs # <<>> /\ last'.evs[1] = "readable"
        /\ (obs.got \o Flatten(rs.buffer) = Units(prod.next - 1))'
      ]_vars

\* C19: with a producer that returns at most bufferSize units per reply, the
\* buffered size never exceeds (lowWaterMark - 1) + bufferSize, whatever the
\* interleaving of read() calls and producer replies.
C19_BufferBounded ==
    rs.length <= (rs.lowWaterMark - 1) + rs.bufferSize

\* C20: on a Transform end-of-data is final: once 'end' has been raised no
\* chunk is appended to the output buffer or returned by read(), and 'end' is
\* not raised while output of the flush step is still to come.
C20_EndIsFinal ==
    [][ /\ obs.ends > 0
           => /\ tr'.next = tr.next
              /\ rs'.length <= rs.length
              /\ last'.op = "read" => last'.ret = Null
        /\ obs'.ends > obs.ends => ~(tr'.flushing /\ tr'.late > 0)
      ]_vars

====
